---- MODULE Spec2Model ----
(***************************************************************************)
(* GateOpenerWorker: a Cloudflare Worker that keeps a registry of public   *)
(* keys (D1 table public_keys) and relays signed gate commands.            *)
(*                                                                         *)
(* src/src/worker.ts holds two variants of the worker: lines 1-245 (the    *)
(* TextEncoder variant, envelope field "expiry") and lines 257-508 (the    *)
(* atob variant, envelope field "timestamp").  The variable `build` says   *)
(* which of the two is deployed; it never changes.                         *)
(*                                                                         *)
(* A request is handled in a slot.  A handler runs atomically between two  *)
(* awaits that touch the outside world (a D1 query, the outbound fetch);   *)
(* at those points the other request in flight interleaves.                *)
(***************************************************************************)
EXTENDS Integers, Sequences, FiniteSets, TLC

(***************************************************************************)
(* Bounds of the model.                                                    *)
(***************************************************************************)
\* rows the table ever gets (ids are AUTOINCREMENT, never reused)
MaxRows == 2
\* Math.random() is drawn from k / RandomResolution, k < RandomResolution,
\* and from the largest double below 1 (draw k = RandomResolution)
RandomResolution == 1

\* The requests in flight at the same time: slot "any" takes every request,
\* slot "registry" takes the requests that write the table (POST, DELETE and
\* PATCH of /publicKey).  GateHandler and SendToGate write nothing that
\* another request reads, so a second gate request in flight adds no
\* interleaving that one gate request next to one registry request lacks.
Slots == {"any", "registry"}

(***************************************************************************)
(* Program constants.                                                      *)
(***************************************************************************)
\* Math.floor(Math.random() * 1000000000)
NonceScale == 1000000000
\* expiry.setMinutes(expiry.getMinutes() + 1)
ExpiryWindowMinutes == 1
\* ECMAScript time arithmetic used by Date.prototype.setMinutes/toISOString
MsPerSecond == 1000
MsPerMinute == 60000
MsPerHour == 3600000
MsPerDay == 86400000
MinutesPerHour == 60
HoursPerDay == 24

DoorAction == {"OPEN", "STOP", "CLOSE"}

\* env.GATE_HMAC_KEY, the shared secret of the deployment
GATE_HMAC_KEY == "gate-secret"

(***************************************************************************)
(* Bytes and texts.  Bytes are [kind, of, kp, msg]:                        *)
(*   spki  - the DER SubjectPublicKeyInfo of RSA key pair kp               *)
(*   sig   - an RSASSA-PKCS1-v1_5/SHA-256 signature made with the private  *)
(*           key of pair kp over the characters of the word msg            *)
(*   junk  - bytes that are neither                                        *)
(*   chars - the character codes of a text: of = "word" for the plain      *)
(*           word msg, otherwise the text whose characters they are        *)
(* A text of the request (publicKey, signature) is [b64, bytes]: the       *)
(* base64 encoding of bytes when b64, a text with characters outside the   *)
(* base64 alphabet otherwise.                                              *)
(***************************************************************************)
Spki(kp) == [kind |-> "spki", of |-> "", kp |-> kp, msg |-> ""]
RsaSign(kp, word) == [kind |-> "sig", of |-> "", kp |-> kp, msg |-> word]
Junk == [kind |-> "junk", of |-> "", kp |-> 0, msg |-> ""]
Thrown == [kind |-> "thrown", of |-> "", kp |-> 0, msg |-> ""]

Base64(bytes) == [b64 |-> TRUE, bytes |-> bytes]
NotBase64 == [b64 |-> FALSE, bytes |-> Junk]
NoText == [b64 |-> FALSE, bytes |-> Thrown]

\* new TextEncoder().encode(word) for an ASCII word
EncodeWord(word) == [kind |-> "chars", of |-> "word", kp |-> 0, msg |-> word]

\* new TextEncoder().encode(text): the characters of the text themselves,
\* never the bytes the text is the base64 encoding of
EncodeText(text) ==
    [kind |-> "chars",
     of |-> IF text.b64 THEN text.bytes.kind ELSE "notbase64",
     kp |-> text.bytes.kp, msg |-> text.bytes.msg]

\* stringToArrayBuffer(atob(text)): atob throws on a text that is not base64
Atob(text) == IF text.b64 THEN text.bytes ELSE Thrown

\* stringToArrayBuffer(word) for an ASCII word: its character codes
StringToArrayBuffer(word) == [kind |-> "chars", of |-> "word", kp |-> 0, msg |-> word]

\* crypto.subtle.importKey('spki', bytes, RSASSA-PKCS1-v1_5): the key pair
\* whose public key the bytes are, 0 when it rejects (DataError)
ImportKey(bytes) == IF bytes.kind = "spki" THEN bytes.kp ELSE 0

\* crypto.subtle.verify(RSASSA-PKCS1-v1_5, key, signature, data)
Verify(kp, signature, data) ==
    /\ signature.kind = "sig"
    /\ signature.kp = kp
    /\ data.kind = "chars"
    /\ data.of = "word"
    /\ signature.msg = data.msg

(***************************************************************************)
(* Date: a time value is a number of milliseconds; the worker's local time *)
(* zone is UTC.  An ISO-8601 string is modelled by its fields.             *)
(***************************************************************************)
Day(t) == t \div MsPerDay
HourFromTime(t) == (t \div MsPerHour) % HoursPerDay
MinFromTime(t) == (t \div MsPerMinute) % MinutesPerHour
SecFromTime(t) == (t \div MsPerSecond) % (MsPerMinute \div MsPerSecond)
MsFromTime(t) == t % MsPerSecond

\* MakeDate(day, MakeTime(hour, min, sec, ms))
MakeDate(day, hour, min, sec, ms) ==
    day * MsPerDay + hour * MsPerHour + min * MsPerMinute + sec * MsPerSecond + ms

\* expiry.getMinutes()
GetMinutes(t) == MinFromTime(t)

\* a setMinutes that keeps the minute field inside 0..59 and drops the carry
SetMinutesNoCarry(t, min) ==
    MakeDate(Day(t), HourFromTime(t), min % MinutesPerHour, SecFromTime(t), MsFromTime(t))

\* expiry.setMinutes(min): the minute field is replaced, a value of 60 or
\* more carries into the hour and the day
SetMinutes(t, min) ==
    MakeDate(Day(t), HourFromTime(t), min, SecFromTime(t), MsFromTime(t))

\* expiry.toISOString()
ToISOString(t) ==
    [day |-> Day(t), hour |-> HourFromTime(t), minute |-> MinFromTime(t),
     second |-> SecFromTime(t), ms |-> MsFromTime(t)]

\* the instant an ISO-8601 string names (what the gate reads back)
ParseISO(iso) == MakeDate(iso.day, iso.hour, iso.minute, iso.second, iso.ms)

\* the instants new Date() is drawn from: mid-hour, the last minute of an
\* hour, the last millisecond of a day
Clock ==
    { MakeDate(0, 12, 34, 56, 789),
      MakeDate(0, 10, 59, 30, 250),
      MakeDate(0, 23, 59, 59, 999) }

(***************************************************************************)
(* Nonce.  A draw k < RandomResolution stands for Math.random() =          *)
(* k / RandomResolution; the draw k = RandomResolution stands for the      *)
(* largest value Math.random() can return, 1 - 2^-53.                      *)
(***************************************************************************)
RandomDraws == 0..RandomResolution

\* Math.round(Math.random() * scale)
RoundScaled(k, scale) ==
    IF k = RandomResolution THEN scale
    ELSE (2 * k * (scale \div RandomResolution)
          + (2 * k * (scale % RandomResolution)) \div RandomResolution + 1) \div 2

\* Math.floor(Math.random() * scale), for scale < 2^53
FloorScaled(k, scale) ==
    IF k = RandomResolution THEN scale - 1
    ELSE k * (scale \div RandomResolution)
         + (k * (scale % RandomResolution)) \div RandomResolution

\* nonce: Math.floor(Math.random() * 1000000000)
Nonce(k) == FloorScaled(k, NonceScale)

(***************************************************************************)
(* The envelope sent to the gate.                                          *)
(***************************************************************************)
\* the name under which the build carries the expiry time in ValueToGate
ExpiryField(b) == IF b = 1 THEN "expiry" ELSE "timestamp"

\* const value: ValueToGate = { action, expiry | timestamp, nonce }: the
\* creation time is new Date(), the expiry is set one minute later
ValueToGate(b, action, now, draw) ==
    [action |-> action,
     nonce |-> Nonce(draw),
     field |-> ExpiryField(b),
     expiry |-> ToISOString(SetMinutes(now, GetMinutes(now) + ExpiryWindowMinutes))]

\* JSON.stringify<ValueToGate>(value): the members in insertion order
JsonStringify(value) ==
    [members |-> IF value.field = "expiry"
                    THEN <<"action", "expiry", "nonce">>
                    ELSE <<"action", "nonce", "timestamp">>,
     action |-> value.action, nonce |-> value.nonce, time |-> value.expiry]

\* encoder.encode(json) in build 1, stringToArrayBuffer(json) in build 2: the
\* bytes of the JSON text, the same in both for the ASCII text it is here
EncodeJson(json) == [chars |-> json]

\* crypto.subtle.sign({name: 'HMAC'}, hmacKey, data), hmacKey imported from
\* the raw bytes of secret with hash SHA-256
HmacSha256(secret, data) == [secret |-> secret, data |-> data]

\* btoa(String.fromCharCode(...new Uint8Array(mac)))
Btoa(mac) == [b64 |-> TRUE, bytes |-> mac]

\* a payload signed before the nonce and the expiry are filled in
PayloadSignedTooEarly(value) ==
    [value |-> value,
     signature |-> Btoa(HmacSha256(GATE_HMAC_KEY,
                     EncodeJson(JsonStringify([value EXCEPT !.nonce = 0,
                                                            !.expiry = ToISOString(0)]))))]

\* const payload: PayloadToGate = { value, signature }
PayloadToGate(value) ==
    [value |-> value,
     signature |-> Btoa(HmacSha256(GATE_HMAC_KEY, EncodeJson(JsonStringify(value))))]

(***************************************************************************)
(* Responses: [code, origin, status, message].  origin is "worker" for a   *)
(* response the worker builds, "gate" for the gate's own response handed   *)
(* back, "runtime" for what the platform answers when the handler throws.  *)
(***************************************************************************)
NewJsonResponse(code, status, message) ==
    [code |-> code, origin |-> "worker", status |-> status, message |-> message]

GetMethodNotAllowedResponse == NewJsonResponse(405, "failed", <<"Method Not Allowed">>)
GetUnauthorizedResponse == NewJsonResponse(401, "failed", <<"Unauthorized">>)
GetNotProductionResponse == NewJsonResponse(403, "failed", <<"Not allowed in production">>)
NotFoundResponse == NewJsonResponse(404, "failed", <<"Not Found">>)
\* the handler's promise rejects: nothing in the worker catches it
UncaughtException == [code |-> 500, origin |-> "runtime", status |-> "", message |-> <<"exception">>]
NoResponse == [code |-> 0, origin |-> "", status |-> "", message |-> <<>>]

\* what the gate endpoint may answer
GateResponses ==
    { [code |-> c, origin |-> "gate", status |-> "", message |-> <<m>>] :
        c \in {204, 403, 503}, m \in {"gate body"} }

\* response.ok
Ok(response) == response.code >= 200 /\ response.code <= 299

\* a relay that answers a failed dispatch with a response of its own
RelayResultOwnFailure(action, response) ==
    IF Ok(response)
      THEN NewJsonResponse(200, "success", <<"Gate action ", action, " sent successfully">>)
      ELSE NewJsonResponse(502, "failed", <<"Gate action ", action, " failed">>)

\* return response.ok ? NewJsonResponse(200, ...) : response
RelayResult(action, response) ==
    IF Ok(response)
      THEN NewJsonResponse(200, "success", <<"Gate action ", action, " sent successfully">>)
      ELSE response

(***************************************************************************)
(* The table public_keys: a set of rows [id, key, trusted].                *)
(***************************************************************************)
toInt(value) == IF value THEN 1 ELSE 0

\* a row that is stored as trusted
NewRowTrusted(id, k) == [id |-> id, key |-> k, trusted |-> toInt(TRUE)]

\* insert(...).values({ key: recivedKey, trusted: toInt(false) })
NewRow(id, k) == [id |-> id, key |-> k, trusted |-> toInt(FALSE)]

\* findFirst({ where: eq(key, k) }): the rows the query selects from
RowsOfKey(tbl, k) == { r \in tbl : r.key = k }

\* a lookup that forgets the trusted column
RowsOfKeyAnyTrust(tbl, k) == { r \in tbl : r.key = k }

\* findFirst({ where: and(eq(trusted, toInt(true)), eq(key, k)) })
TrustedRowsOfKey(tbl, k) == { r \in tbl : r.trusted = toInt(TRUE) /\ r.key = k }

(***************************************************************************)
(* Inputs.                                                                 *)
(***************************************************************************)
Paths == {"/publicKey", "/table", "/gate", "/"}
Methods == {"GET", "POST", "PUT", "PATCH", "DELETE"}

\* the requests a slot takes
Takes(s, path, method) ==
    s = "registry" => path = "/publicKey" /\ method \in {"POST", "DELETE", "PATCH"}

\* the texts a client sends as a key: the base64 SPKI of key pair 1 and the
\* base64 of bytes that are no key
KeyInputs == { Base64(Spki(1)), Base64(Junk) }

\* the action words a client sends: request.json() checks nothing
ActionInputs == {"OPEN", "STOP", "REBOOT"}

\* the texts a client sends as a signature
SignatureInputs ==
    { Base64(RsaSign(1, "OPEN")), Base64(RsaSign(1, "STOP")), Base64(RsaSign(1, "REBOOT")),
      Base64(RsaSign(2, "OPEN")), NotBase64 }

NoBody == [key |-> NoText, signature |-> NoText, action |-> "", trusted |-> FALSE]

\* a routing whose DELETE /publicKey is open in every environment
RouteDeleteUnguarded(env, path, method) ==
    CASE path = "/publicKey" ->
           ( CASE method = "POST" -> "PublicKeyPostHandler"
               [] method = "GET" ->
                    IF env # "DEVELOPMENT" THEN "403" ELSE "PublicKeyGetHandler"
               [] method = "DELETE" ->
                    "PublicKeyDeleteHandler"
               [] method = "PATCH" ->
                    IF env # "DEVELOPMENT" THEN "403" ELSE "PublicKeyUpdateHandler"
               [] OTHER -> "405" )
      [] path = "/table" ->
           IF env # "DEVELOPMENT" THEN "403"
           ELSE IF method # "PUT" THEN "405" ELSE "TableHandler"
      [] path = "/gate" ->
           IF method # "PATCH" THEN "405" ELSE "GateHandler"
      [] OTHER -> "404"

\* a routing whose PATCH /publicKey is open in every environment
RoutePatchUnguarded(env, path, method) ==
    CASE path = "/publicKey" ->
           ( CASE method = "POST" -> "PublicKeyPostHandler"
               [] method = "GET" ->
                    IF env # "DEVELOPMENT" THEN "403" ELSE "PublicKeyGetHandler"
               [] method = "DELETE" ->
                    IF env # "DEVELOPMENT" THEN "403" ELSE "PublicKeyDeleteHandler"
               [] method = "PATCH" ->
                    "PublicKeyUpdateHandler"
               [] OTHER -> "405" )
      [] path = "/table" ->
           IF env # "DEVELOPMENT" THEN "403"
           ELSE IF method # "PUT" THEN "405" ELSE "TableHandler"
      [] path = "/gate" ->
           IF method # "PATCH" THEN "405" ELSE "GateHandler"
      [] OTHER -> "404"

\* a routing whose /gate takes every method
RouteGateAnyMethod(env, path, method) ==
    CASE path = "/publicKey" ->
           ( CASE method = "POST" -> "PublicKeyPostHandler"
               [] method = "GET" ->
                    IF env # "DEVELOPMENT" THEN "403" ELSE "PublicKeyGetHandler"
               [] method = "DELETE" ->
                    IF env # "DEVELOPMENT" THEN "403" ELSE "PublicKeyDeleteHandler"
               [] method = "PATCH" ->
                    IF env # "DEVELOPMENT" THEN "403" ELSE "PublicKeyUpdateHandler"
               [] OTHER -> "405" )
      [] path = "/table" ->
           IF env # "DEVELOPMENT" THEN "403"
           ELSE IF method # "PUT" THEN "405" ELSE "TableHandler"
      [] path = "/gate" ->
           "GateHandler"
      [] OTHER -> "404"

\* fetch: which handler the request reaches, or which response it gets at once
Route(env, path, method) ==
    CASE path = "/publicKey" ->
           ( CASE method = "POST" -> "PublicKeyPostHandler"
               [] method = "GET" ->
                    IF env # "DEVELOPMENT" THEN "403" ELSE "PublicKeyGetHandler"
               [] method = "DELETE" ->
                    IF env # "DEVELOPMENT" THEN "403" ELSE "PublicKeyDeleteHandler"
               [] method = "PATCH" ->
                    IF env # "DEVELOPMENT" THEN "403" ELSE "PublicKeyUpdateHandler"
               [] OTHER -> "405" )
      [] path = "/table" ->
           IF env # "DEVELOPMENT" THEN "403"
           ELSE IF method # "PUT" THEN "405" ELSE "TableHandler"
      [] path = "/gate" ->
           IF method # "PATCH" THEN "405" ELSE "GateHandler"
      [] OTHER -> "404"

\* the bodies a request to a handler is drawn from
Bodies(handler) ==
    CASE handler \in {"PublicKeyPostHandler", "PublicKeyDeleteHandler"} ->
           { [NoBody EXCEPT !.key = k] : k \in KeyInputs }
      [] handler = "PublicKeyUpdateHandler" ->
           { [NoBody EXCEPT !.key = k, !.trusted = t] : k \in KeyInputs, t \in BOOLEAN }
      [] handler = "GateHandler" ->
           { [key |-> k, signature |-> g, action |-> a, trusted |-> FALSE] :
               k \in KeyInputs, g \in SignatureInputs, a \in ActionInputs }
      [] OTHER -> { NoBody }

(***************************************************************************)
(* State.                                                                  *)
(***************************************************************************)
VARIABLES
    build,        \* 1: worker.ts lines 1-245, 2: worker.ts lines 257-508
    environment,  \* env.ENVIRONMENT
    table,        \* the rows of public_keys
    nextId,       \* the next AUTOINCREMENT id
    slots         \* the requests in flight

vars == <<build, environment, table, nextId, slots>>

\* a slot: the request (path, method, body), where its handler stands (pc),
\* the handler's locals, the response, and what is recorded of its run:
\*   seen     - what the trust lookup met: "absent", "untrusted", "trusted"
\*   verified - what the signature check gave: "thrown", "false", "true"
\*   sent     - the payloads this request POSTed to the gate, in order
\*   minted   - the new Date() and Math.random() draws behind each payload
\*   answer   - what the gate answered to the POST
Idle ==
    [pc |-> "idle", path |-> "", method |-> "", body |-> NoBody,
     seen |-> "", verified |-> "", sent |-> <<>>, minted |-> <<>>,
     answer |-> NoResponse, response |-> NoResponse]

InitialTables ==
    { {}, { [id |-> 1, key |-> Base64(Spki(1)), trusted |-> toInt(TRUE)] } }

Init ==
    /\ build \in {1, 2}
    /\ environment \in {"DEVELOPMENT", "PRODUCTION"}
    /\ table \in InitialTables
    /\ nextId = Cardinality(table) + 1
    /\ slots = [s \in Slots |-> Idle]

Done(s, response) == [slots EXCEPT ![s].pc = "done", ![s].response = response]

\* export default { fetch }: the routing switch
Fetch(s) ==
    /\ slots[s].pc = "idle"
    /\ \E path \in Paths, method \in Methods :
         /\ Takes(s, path, method)
         /\ LET handler == Route(environment, path, method)
                started == [Idle EXCEPT !.path = path, !.method = method]
            IN  \E body \in Bodies(handler) :
                  slots' = [slots EXCEPT ![s] =
                     CASE handler = "403" ->
                            [started EXCEPT !.pc = "done", !.response = GetNotProductionResponse]
                       [] handler = "405" ->
                            [started EXCEPT !.pc = "done", !.response = GetMethodNotAllowedResponse]
                       [] handler = "404" ->
                            [started EXCEPT !.pc = "done", !.response = NotFoundResponse]
                       [] OTHER ->
                            [started EXCEPT !.pc = handler, !.body = body]]
    /\ UNCHANGED <<build, environment, table, nextId>>

\* PublicKeyPostHandler up to its insert: findFirst, 409 when the key is stored
PublicKeyPostFind(s) ==
    /\ slots[s].pc = "PublicKeyPostHandler"
    /\ slots' = IF RowsOfKey(table, slots[s].body.key) # {}
                  THEN Done(s, NewJsonResponse(409, "failed", <<"Key already exists">>))
                  ELSE [slots EXCEPT ![s].pc = "PublicKeyPostHandler:insert"]
    /\ UNCHANGED <<build, environment, table, nextId>>

\* PublicKeyPostHandler: the insert, trusted = toInt(false)
PublicKeyPostInsert(s) ==
    /\ slots[s].pc = "PublicKeyPostHandler:insert"
    /\ nextId <= MaxRows
    /\ table' = table \cup { NewRow(nextId, slots[s].body.key) }
    /\ nextId' = nextId + 1
    /\ slots' = Done(s, NewJsonResponse(200, "success", <<"Key added">>))
    /\ UNCHANGED <<build, environment>>

\* PublicKeyGetHandler
PublicKeyGet(s) ==
    /\ slots[s].pc = "PublicKeyGetHandler"
    /\ slots' = IF table = {}
                  THEN Done(s, NewJsonResponse(404, "failed", <<"No keys found">>))
                  ELSE Done(s, NewJsonResponse(200, "success", <<"keys">>))
    /\ UNCHANGED <<build, environment, table, nextId>>

\* PublicKeyDeleteHandler up to its delete: findFirst, 404 when no such key
PublicKeyDeleteFind(s) ==
    /\ slots[s].pc = "PublicKeyDeleteHandler"
    /\ slots' = IF RowsOfKey(table, slots[s].body.key) = {}
                  THEN Done(s, NewJsonResponse(404, "failed", <<"Key not found">>))
                  ELSE [slots EXCEPT ![s].pc = "PublicKeyDeleteHandler:delete"]
    /\ UNCHANGED <<build, environment, table, nextId>>

\* PublicKeyDeleteHandler: delete ... where key = recivedKey
PublicKeyDelete(s) ==
    /\ slots[s].pc = "PublicKeyDeleteHandler:delete"
    /\ table' = table \ RowsOfKey(table, slots[s].body.key)
    /\ slots' = Done(s, NewJsonResponse(200, "success", <<"Key deleted">>))
    /\ UNCHANGED <<build, environment, nextId>>

\* an update that changes one of the records of the key, the newest
PublicKeyUpdateLastOnly(s) ==
    /\ slots[s].pc = "PublicKeyUpdateHandler"
    /\ table' = { IF /\ r.key = slots[s].body.key
                     /\ \A q \in RowsOfKey(table, r.key) : r.id >= q.id
                    THEN [r EXCEPT !.trusted = toInt(slots[s].body.trusted)]
                    ELSE r : r \in table }
    /\ slots' = Done(s, NewJsonResponse(200, "success", <<"Key updated">>))
    /\ UNCHANGED <<build, environment, nextId>>

\* PublicKeyUpdateHandler: update ... set trusted, key where key = updateTo.key
PublicKeyUpdate(s) ==
    /\ slots[s].pc = "PublicKeyUpdateHandler"
    /\ table' = { IF r.key = slots[s].body.key
                    THEN [r EXCEPT !.trusted = toInt(slots[s].body.trusted)]
                    ELSE r : r \in table }
    /\ slots' = Done(s, NewJsonResponse(200, "success", <<"Key updated">>))
    /\ UNCHANGED <<build, environment, nextId>>

\* TableHandler: CREATE TABLE IF NOT EXISTS
Table(s) ==
    /\ slots[s].pc = "TableHandler"
    /\ slots' = Done(s, NewJsonResponse(200, "success", <<"Table created or already exists">>))
    /\ UNCHANGED <<build, environment, table, nextId>>

(***************************************************************************)
(* GateHandler and SendToGate.                                             *)
(***************************************************************************)
\* a trust check that tells a caller whether the key is registered
TrustCheckTellingAbsent(tbl, k) ==
    IF TrustedRowsOfKey(tbl, k) # {} THEN NoResponse
    ELSE IF RowsOfKey(tbl, k) = {}
      THEN NewJsonResponse(404, "failed", <<"Key not found">>)
      ELSE GetUnauthorizedResponse

\* a trust check that lets every key through
TrustCheckSkipped(tbl, k) == NoResponse

\* a trust check whose lookup matches the key alone
TrustCheckAnyTrust(tbl, k) ==
    IF RowsOfKeyAnyTrust(tbl, k) = {} THEN GetUnauthorizedResponse ELSE NoResponse

\* const key = findFirst(trusted and key); if (!key) return Unauthorized:
\* the response the handler returns at once, NoResponse when it goes on
TrustCheck(tbl, k) ==
    IF TrustedRowsOfKey(tbl, k) = {} THEN GetUnauthorizedResponse ELSE NoResponse

\* importKey + verify of the request, per build: "thrown" when a step of
\* it throws, otherwise VerifyResult as "true" or "false"
VerifyResult(b, body) ==
    IF b = 1
      THEN LET recivedKeyBinary == EncodeText(body.key)
               signatureBinary == EncodeText(body.signature)
               recivedKey == ImportKey(recivedKeyBinary)
           IN  IF recivedKey = 0 THEN "thrown"
               ELSE IF Verify(recivedKey, signatureBinary, EncodeWord(body.action))
                 THEN "true" ELSE "false"
      ELSE LET recivedKeyBinary == Atob(body.key)
               signatureBinary == Atob(body.signature)
               recivedKey == ImportKey(recivedKeyBinary)
           IN  IF recivedKeyBinary = Thrown \/ signatureBinary = Thrown THEN "thrown"
               ELSE IF recivedKey = 0 THEN "thrown"
               ELSE IF Verify(recivedKey, signatureBinary, StringToArrayBuffer(body.action))
                 THEN "true" ELSE "false"

\* GateHandler up to the end of its trust lookup
GateFind(s) ==
    /\ slots[s].pc = "GateHandler"
    /\ LET k == slots[s].body.key
           met == IF \E r \in table : r.key = k /\ r.trusted = 1 THEN "trusted"
                  ELSE IF \E r \in table : r.key = k THEN "untrusted"
                  ELSE "absent"
           now == TrustCheck(table, k)
       IN  slots' = IF now # NoResponse
                      THEN [slots EXCEPT ![s].pc = "done", ![s].seen = met,
                                         ![s].response = now]
                      ELSE [slots EXCEPT ![s].pc = "GateHandler:verify", ![s].seen = met]
    /\ UNCHANGED <<build, environment, table, nextId>>

\* GateHandler from importKey on, and SendToGate up to its fetch: the
\* signature check, then the envelope is minted, signed and POSTed
GateVerifyAndSend(s) ==
    /\ slots[s].pc = "GateHandler:verify"
    /\ \E now \in Clock, draw \in RandomDraws :
         LET body == slots[s].body
             result == VerifyResult(build, body)
             payload == PayloadToGate(ValueToGate(build, body.action, now, draw))
         IN  slots' =
               CASE result = "thrown" ->
                      [slots EXCEPT ![s].pc = "done", ![s].verified = result,
                                    ![s].response = UncaughtException]
                 [] result = "false" ->
                      [slots EXCEPT ![s].pc = "done", ![s].verified = result,
                                    ![s].response = GetUnauthorizedResponse]
                 [] OTHER ->
                      [slots EXCEPT ![s].pc = "SendToGate:fetch", ![s].verified = result,
                                    ![s].sent = Append(@, payload),
                                    ![s].minted = Append(@, [now |-> now, draw |-> draw])]
    /\ UNCHANGED <<build, environment, table, nextId>>

\* a relay that forgets the key of a request the gate turned down
GateAnswersRevoking(s) ==
    /\ slots[s].pc = "SendToGate:fetch"
    /\ \E r \in GateResponses :
         /\ slots' = [slots EXCEPT ![s].pc = "done", ![s].answer = r,
                                   ![s].response = RelayResult(slots[s].body.action, r)]
         /\ table' = IF r.code = 204 THEN table
                     ELSE table \ RowsOfKey(table, slots[s].body.key)
    /\ UNCHANGED <<build, environment, nextId>>

\* SendToGate after its fetch: the gate answered
GateAnswers(s) ==
    /\ slots[s].pc = "SendToGate:fetch"
    /\ \E r \in GateResponses :
         slots' = [slots EXCEPT ![s].pc = "done", ![s].answer = r,
                                ![s].response = RelayResult(slots[s].body.action, r)]
    /\ UNCHANGED <<build, environment, table, nextId>>

\* SendToGate: its fetch rejects (the gate cannot be reached)
GateUnreachable(s) ==
    /\ slots[s].pc = "SendToGate:fetch"
    /\ slots' = Done(s, UncaughtException)
    /\ UNCHANGED <<build, environment, table, nextId>>

\* the response has gone to the caller: the request is over
Deliver(s) ==
    /\ slots[s].pc = "done"
    /\ slots' = [slots EXCEPT ![s] = Idle]
    /\ UNCHANGED <<build, environment, table, nextId>>

Next ==
    \E s \in Slots :
      \/ Fetch(s)
      \/ PublicKeyPostFind(s)
      \/ PublicKeyPostInsert(s)
      \/ PublicKeyGet(s)
      \/ PublicKeyDeleteFind(s)
      \/ PublicKeyDelete(s)
      \/ PublicKeyUpdate(s)
      \/ Table(s)
      \/ GateFind(s)
      \/ GateVerifyAndSend(s)
      \/ GateAnswers(s)
      \/ GateUnreachable(s)
      \/ Deliver(s)

Spec == Init /\ [][Next]_vars

(***************************************************************************)
(* Vocabulary of the properties.                                           *)
(***************************************************************************)
\* the slot holds a request that reached GateHandler
InGate(s) == slots[s].path = "/gate" /\ slots[s].method = "PATCH"

\* the key pair a key text names: 0 when it is no base64 of an SPKI key
KeyPairOf(text) == IF text.b64 /\ text.bytes.kind = "spki" THEN text.bytes.kp ELSE 0

\* the signature text is the base64 of an RSA signature
WellFormedSignature(body) == body.signature.b64 /\ body.signature.bytes.kind = "sig"

\* the signature was made over the action with the private key of the
\* presented public key
Genuine(body) ==
    /\ KeyPairOf(body.key) # 0
    /\ WellFormedSignature(body)
    /\ body.signature.bytes.kp = KeyPairOf(body.key)
    /\ body.signature.bytes.msg = body.action

\* the key or the signature cannot be decoded
Malformed(body) == KeyPairOf(body.key) = 0 \/ ~body.signature.b64

\* the request is past its signature check
PastVerify(s) == slots[s].verified # ""

TwoPow16 == 2 ^ 16

(***************************************************************************)
(* C1: a /gate request POSTs to the gate only after its own trust lookup   *)
(* met a trusted record for the key and its signature check gave true; a   *)
(* request answered Unauthorized has POSTed nothing.                       *)
(***************************************************************************)
C1_DispatchOnlyAfterAuthorization ==
    \A s \in Slots :
      /\ slots[s].sent # <<>> =>
           /\ InGate(s)
           /\ slots[s].seen = "trusted"
           /\ slots[s].verified = "true"
      /\ slots[s].response = GetUnauthorizedResponse => slots[s].sent = <<>>

C1_Witness ==
    \E s \in Slots :
      /\ slots[s].pc = "SendToGate:fetch"
      /\ Len(slots[s].sent) = 1
      /\ slots[s].seen = "trusted"

(***************************************************************************)
(* C2: a /gate request whose key has, at the lookup, no record or only     *)
(* records with trusted = false is answered 401 Unauthorized and sends no  *)
(* envelope, whatever its signature.                                       *)
(***************************************************************************)
C2_UntrustedKeyUnauthorized ==
    \A s \in Slots :
      slots[s].seen \in {"absent", "untrusted"} =>
        /\ slots[s].pc = "done"
        /\ slots[s].response = GetUnauthorizedResponse
        /\ slots[s].sent = <<>>

C2_Witness ==
    \E s \in Slots :
      /\ slots[s].seen = "untrusted"
      /\ Genuine(slots[s].body)
      /\ slots[s].response = GetUnauthorizedResponse

(***************************************************************************)
(* C3: a /gate request with a trusted key and a well-formed signature that *)
(* does not verify (made with another private key, or over another action) *)
(* is answered 401 Unauthorized and sends nothing.                         *)
(***************************************************************************)
C3_WrongSignatureUnauthorized ==
    \A s \in Slots :
      ( /\ PastVerify(s)
        /\ slots[s].seen = "trusted"
        /\ KeyPairOf(slots[s].body.key) # 0
        /\ WellFormedSignature(slots[s].body)
        /\ ~Genuine(slots[s].body) ) =>
        /\ slots[s].response = GetUnauthorizedResponse
        /\ slots[s].sent = <<>>

(***************************************************************************)
(* C4: a /gate request with a trusted key whose key or signature text      *)
(* cannot be decoded is answered 401 Unauthorized and sends nothing.       *)
(***************************************************************************)
C4_MalformedUnauthorized ==
    \A s \in Slots :
      ( /\ PastVerify(s)
        /\ slots[s].seen = "trusted"
        /\ Malformed(slots[s].body) ) =>
        /\ slots[s].response = GetUnauthorizedResponse
        /\ slots[s].sent = <<>>

(***************************************************************************)
(* C5: a /gate request with a trusted key and a genuine signature sends    *)
(* exactly one envelope, carrying the requested action, and gets 200       *)
(* "Gate action <ACTION> sent successfully" when the gate answers success. *)
(***************************************************************************)
C5_GenuineRequestDispatched ==
    \A s \in Slots :
      ( /\ PastVerify(s)
        /\ slots[s].seen = "trusted"
        /\ Genuine(slots[s].body) ) =>
        /\ Len(slots[s].sent) = 1
        /\ slots[s].sent[1].value.action = slots[s].body.action
        /\ Ok(slots[s].answer) =>
             slots[s].response =
               NewJsonResponse(200, "success",
                 <<"Gate action ", slots[s].body.action, " sent successfully">>)

(***************************************************************************)
(* C6: when the gate answers a dispatch with a non-success status, the     *)
(* caller gets the gate's own response, status and body; and a /gate       *)
(* request POSTs to the gate at most once.                                 *)
(***************************************************************************)
C6_FailurePassedThroughNoRetry ==
    \A s \in Slots :
      /\ Len(slots[s].sent) <= 1
      /\ (slots[s].answer # NoResponse /\ ~Ok(slots[s].answer)) =>
           /\ slots[s].pc = "done"
           /\ slots[s].response = slots[s].answer

C6_Witness ==
    \E s \in Slots :
      /\ slots[s].pc = "done"
      /\ slots[s].answer.code = 503
      /\ slots[s].response.origin = "gate"
      /\ Len(slots[s].sent) = 1

(***************************************************************************)
(* C7: a /gate request denied at the trust check gets the response that a  *)
(* request presenting any other key without a trusted record would get     *)
(* from the same store: an unknown key and a known but untrusted key are   *)
(* answered alike.                                                         *)
(***************************************************************************)
C7_DenialHidesMembership ==
    \A s \in Slots :
      slots[s].seen \in {"absent", "untrusted"} =>
        \A k \in KeyInputs :
          (~ \E r \in table : r.key = k /\ r.trusted = 1) =>
            TrustCheck(table, k) = slots[s].response

\* a request with an unknown key was denied while the store holds another
\* key, untrusted
C7_Witness ==
    \E s \in Slots :
      /\ slots[s].seen = "absent"
      /\ slots[s].pc = "done"
      /\ \E r \in table : r.key # slots[s].body.key /\ r.trusted = 0
      /\ ~ \E r \in table : r.key = slots[s].body.key

(***************************************************************************)
(* C8: the signature of every envelope sent is the base64 of the           *)
(* HMAC-SHA256, under the shared secret, of the serialization of the value *)
(* the same envelope carries: what is signed and what is sent have the     *)
(* same action, nonce and expiry.                                          *)
(***************************************************************************)
C8_MacCoversTransmittedValue ==
    \A s \in Slots :
      \A i \in 1..Len(slots[s].sent) :
        LET envelope == slots[s].sent[i]
            mac == envelope.signature.bytes
        IN  /\ envelope.signature.b64
            /\ mac.secret = GATE_HMAC_KEY
            /\ mac.data.chars.action = envelope.value.action
            /\ mac.data.chars.nonce = envelope.value.nonce
            /\ mac.data.chars.time = envelope.value.expiry
            /\ mac = HmacSha256(GATE_HMAC_KEY, EncodeJson(JsonStringify(envelope.value)))

\* an envelope with a nonce and an expiry that are not the zero values
C8_Witness ==
    \E s \in Slots :
      /\ Len(slots[s].sent) = 1
      /\ slots[s].sent[1].value.nonce > 0
      /\ ParseISO(slots[s].sent[1].value.expiry) > 0

(***************************************************************************)
(* C9: the expiry an envelope carries is later than the creation time of   *)
(* its command by exactly the window of one minute, also when the command  *)
(* is created in the last minute of an hour or of a day.                   *)
(***************************************************************************)
C9_ExpiryOneWindowLater ==
    \A s \in Slots :
      \A i \in 1..Len(slots[s].sent) :
        LET created == slots[s].minted[i].now
            expiry == ParseISO(slots[s].sent[i].value.expiry)
        IN  /\ expiry > created
            /\ expiry - created = ExpiryWindowMinutes * MsPerMinute

\* an envelope minted in the last minute of a day
C9_Witness ==
    \E s \in Slots :
      /\ Len(slots[s].sent) = 1
      /\ MinFromTime(slots[s].minted[1].now) = MinutesPerHour - 1
      /\ HourFromTime(slots[s].minted[1].now) = HoursPerDay - 1

(***************************************************************************)
(* C10: the nonces that can be minted are exactly 0..2^32-1.  As stated:   *)
(* every minted nonce is in that range, the smallest draw of Math.random() *)
(* mints 0 and the largest mints 2^32-1.                                   *)
(***************************************************************************)
C10_NonceSpansUint32 ==
    \A s \in Slots :
      \A i \in 1..Len(slots[s].sent) :
        LET nonce == slots[s].sent[i].value.nonce
            draw == slots[s].minted[i].draw
        IN  /\ nonce >= 0
            /\ nonce \div TwoPow16 < TwoPow16
            /\ draw = 0 => nonce = 0
            /\ draw = RandomResolution =>
                 /\ nonce \div TwoPow16 = TwoPow16 - 1
                 /\ nonce % TwoPow16 = TwoPow16 - 1

(***************************************************************************)
(* C10, amended: every minted nonce is in 0..999999999, inside the 32-bit  *)
(* unsigned range; the smallest draw mints 0 and the largest 999999999.    *)
(***************************************************************************)
C10_NonceBelowScale ==
    \A s \in Slots :
      \A i \in 1..Len(slots[s].sent) :
        LET nonce == slots[s].sent[i].value.nonce
            draw == slots[s].minted[i].draw
        IN  /\ nonce >= 0
            /\ nonce <= NonceScale - 1
            /\ nonce \div TwoPow16 < TwoPow16
            /\ draw = 0 => nonce = 0
            /\ draw = RandomResolution => nonce = NonceScale - 1

\* an envelope minted from the largest draw
C10_Witness ==
    \E s \in Slots :
      /\ Len(slots[s].sent) = 1
      /\ slots[s].minted[1].draw = RandomResolution
      /\ slots[s].sent[1].value.nonce = NonceScale - 1

(***************************************************************************)
(* C11: every envelope sent to the gate carries an action of DoorAction;   *)
(* a request with any other action word is never forwarded.                *)
(***************************************************************************)
C11_OnlyDoorActionsSent ==
    \A s \in Slots :
      \A i \in 1..Len(slots[s].sent) :
        slots[s].sent[i].value.action \in DoorAction

(***************************************************************************)
(* Vocabulary of the properties of steps.                                  *)
(***************************************************************************)
\* the store holds a record of the key with trusted = true
HasTrustedRow(tbl, k) == \E r \in tbl : r.key = k /\ r.trusted = 1

\* a key gets a trusted record, where it had none, only by the step of a
\* PATCH /publicKey that sets that key to trusted = true
TrustOnlyByUpdate ==
    \A k \in KeyInputs :
      (~HasTrustedRow(table, k) /\ HasTrustedRow(table', k)) =>
        \E s \in Slots :
          /\ slots[s].pc = "PublicKeyUpdateHandler"
          /\ slots[s].body.key = k
          /\ slots[s].body.trusted
          /\ slots'[s].pc = "done"

\* a /gate request whose lookup runs while its key has no trusted record
\* ends there, with 401 Unauthorized and nothing sent
DeniedAtLookup ==
    \A s \in Slots :
      ( /\ slots[s].pc = "GateHandler"
        /\ slots'[s].pc # "GateHandler"
        /\ ~HasTrustedRow(table, slots[s].body.key) ) =>
        /\ slots'[s].pc = "done"
        /\ slots'[s].response = GetUnauthorizedResponse
        /\ slots'[s].sent = <<>>

\* the insert of a POST /publicKey adds one record, of its key, untrusted
RegisteredUntrusted ==
    \A s \in Slots :
      (slots[s].pc = "PublicKeyPostHandler:insert" /\ slots'[s].pc = "done") =>
        \E r \in table' :
          /\ r \notin table
          /\ table' = table \cup {r}
          /\ r.key = slots[s].body.key
          /\ r.trusted = 0

(***************************************************************************)
(* C12: POST /publicKey stores the key with trusted = false; a key without *)
(* a trusted record gets one only when an update marks it trusted; and a   *)
(* /gate request presenting a key without a trusted record gets 401 and    *)
(* sends nothing, also with a genuine signature.                           *)
(***************************************************************************)
C12_RegisteredKeyStaysUntrusted ==
    [][RegisteredUntrusted /\ TrustOnlyByUpdate /\ DeniedAtLookup]_vars

\* where no update is reachable: a registered key, a genuine signature, 401
C12_Witness ==
    /\ environment = "PRODUCTION"
    /\ \E s \in Slots :
         /\ slots[s].seen = "untrusted"
         /\ Genuine(slots[s].body)
         /\ slots[s].pc = "done"
         /\ slots[s].response = GetUnauthorizedResponse
         /\ slots[s].sent = <<>>

(***************************************************************************)
(* C13: no two records of the store have the same key.                     *)
(***************************************************************************)
C13_KeyUnique ==
    \A r1 \in table : \A r2 \in table : r1.key = r2.key => r1 = r2

(***************************************************************************)
(* C14: every step of a /gate request, from its arrival to the delivery of *)
(* its response, leaves the rows of the store and the id counter as they   *)
(* were; once the response is delivered nothing of the request is kept.    *)
(***************************************************************************)
C14_GateLeavesStoreUnchanged ==
    [][\A s \in Slots :
         ( /\ slots'[s] # slots[s]
           /\ (slots[s].path = "/gate" \/ slots'[s].path = "/gate") ) =>
           /\ table' = table
           /\ nextId' = nextId
           /\ (slots[s].pc = "done" => slots'[s] = Idle)]_vars

\* a dispatch the gate turned down, over a store that holds a record
C14_Witness ==
    /\ table # {}
    /\ \E s \in Slots :
         /\ InGate(s)
         /\ slots[s].pc = "done"
         /\ slots[s].sent # <<>>
         /\ slots[s].answer \in GateResponses
         /\ slots[s].answer.code # 204

(***************************************************************************)
(* The steps of a request that the worker takes by itself: all but the     *)
(* arrival of a request and the outcome of the fetch to the gate.          *)
(***************************************************************************)
WorkerStep(s) ==
    \/ PublicKeyPostFind(s)
    \/ PublicKeyPostInsert(s)
    \/ PublicKeyGet(s)
    \/ PublicKeyDeleteFind(s)
    \/ PublicKeyDelete(s)
    \/ PublicKeyUpdate(s)
    \/ Table(s)
    \/ GateFind(s)
    \/ GateVerifyAndSend(s)
    \/ Deliver(s)

(***************************************************************************)
(* C15: a request waiting on its fetch to the gate can always be ended by  *)
(* the worker itself (a timeout), whether or not the gate ever answers.    *)
(***************************************************************************)
C15_DispatchEndsWithoutGate ==
    \A s \in Slots :
      slots[s].pc = "SendToGate:fetch" => ENABLED WorkerStep(s)

(***************************************************************************)
(* Vocabulary of the environment switch.                                   *)
(***************************************************************************)
\* the request of the slot is one of the administrative operations
Administrative(slot) ==
    \/ slot.path = "/publicKey" /\ slot.method \in {"GET", "DELETE", "PATCH"}
    \/ slot.path = "/table"

\* every administrative request in flight is already answered 403, and no
\* handler other than those of POST /publicKey and PATCH /gate is running
AdminClosed ==
    \A s \in Slots :
      /\ Administrative(slots[s]) =>
           /\ slots[s].pc = "done"
           /\ slots[s].response = GetNotProductionResponse
      /\ slots[s].pc \in {"idle", "done",
                          "PublicKeyPostHandler", "PublicKeyPostHandler:insert",
                          "GateHandler", "GateHandler:verify", "SendToGate:fetch"}
      /\ slots[s].pc \in {"PublicKeyPostHandler", "PublicKeyPostHandler:insert"} =>
           slots[s].path = "/publicKey" /\ slots[s].method = "POST"
      /\ slots[s].pc \in {"GateHandler", "GateHandler:verify", "SendToGate:fetch"} =>
           InGate(s)

(***************************************************************************)
(* C16: outside DEVELOPMENT, GET, DELETE and PATCH on /publicKey and every *)
(* request to /table are answered 403 on arrival and no step of such a     *)
(* request changes the store; the only handlers that run are those of      *)
(* POST /publicKey and PATCH /gate.                                        *)
(***************************************************************************)
C16_AdminClosedOutsideDevelopment ==
    [][environment # "DEVELOPMENT" =>
         /\ AdminClosed'
         /\ \A s \in Slots :
              (slots'[s] # slots[s] /\ (Administrative(slots[s]) \/ Administrative(slots'[s])))
                => table' = table /\ nextId' = nextId
         /\ table' # table =>
              \E s \in Slots : slots[s].pc = "PublicKeyPostHandler:insert"
                                 /\ slots'[s].pc = "done"]_vars

\* a DELETE /publicKey and a request to /table refused in production, over
\* a store that holds a record
C16_Witness ==
    /\ environment = "PRODUCTION"
    /\ table # {}
    /\ \E s \in Slots :
         /\ slots[s].path = "/publicKey" /\ slots[s].method = "DELETE"
         /\ slots[s].response = GetNotProductionResponse
    /\ \E s \in Slots :
         /\ slots[s].path = "/table"
         /\ slots[s].response = GetNotProductionResponse

(***************************************************************************)
(* Vocabulary of revocation.                                               *)
(***************************************************************************)
\* when a DELETE /publicKey of a key, or a PATCH /publicKey setting it to
\* trusted = false, completes, no record of the key is trusted
RevocationComplete ==
    \A s \in Slots :
      ( /\ slots'[s].pc = "done"
        /\ \/ slots[s].pc \in {"PublicKeyDeleteHandler", "PublicKeyDeleteHandler:delete"}
           \/ slots[s].pc = "PublicKeyUpdateHandler" /\ ~slots[s].body.trusted ) =>
        ~HasTrustedRow(table', slots[s].body.key)

(***************************************************************************)
(* C17: when a DELETE /publicKey of K or a PATCH /publicKey setting K to   *)
(* trusted = false completes, no record of K is trusted, however many the  *)
(* store holds; K gets a trusted record again only by a PATCH /publicKey   *)
(* setting it to trusted = true; and a /gate request whose lookup runs     *)
(* while K has no trusted record gets 401 and sends nothing.               *)
(***************************************************************************)
C17_RevocationTakesEffect ==
    [][RevocationComplete /\ DeniedAtLookup /\ TrustOnlyByUpdate]_vars

\* K is stored twice, a PATCH setting it to untrusted has completed, and a
\* genuine /gate request presenting K is turned down
C17_Witness ==
    \E s \in Slots, g \in Slots :
      /\ slots[s].path = "/publicKey" /\ slots[s].method = "PATCH"
      /\ slots[s].pc = "done"
      /\ slots[s].response = NewJsonResponse(200, "success", <<"Key updated">>)
      /\ ~slots[s].body.trusted
      /\ Cardinality(RowsOfKey(table, slots[s].body.key)) > 1
      /\ InGate(g)
      /\ slots[g].body.key = slots[s].body.key
      /\ Genuine(slots[g].body)
      /\ slots[g].pc = "done"
      /\ slots[g].seen = "untrusted"
      /\ slots[g].response = GetUnauthorizedResponse
      /\ slots[g].sent = <<>>

(***************************************************************************)
(* Vocabulary of promotion.                                                *)
(***************************************************************************)
\* no record of the store is trusted
NoTrustedRow(tbl) == \A r \in tbl : r.trusted = 0

\* no request in flight has passed the trust lookup or sent an envelope
NoneAuthorized ==
    \A s \in Slots : slots[s].seen # "trusted" /\ slots[s].sent = <<>>

\* no record goes from untrusted to trusted, and new records are untrusted
NoPromotion ==
    \A r \in table' :
      r.trusted = 1 => \E q \in table : q.id = r.id /\ q.trusted = 1

(***************************************************************************)
(* C18: outside DEVELOPMENT no step turns a record's trusted flag from     *)
(* false to true or adds a trusted record; so from a store without a       *)
(* trusted record, and no request authorized, every step leads to a store  *)
(* without a trusted record with no request authorized and nothing sent.   *)
(***************************************************************************)
C18_NoPromotionOutsideDevelopment ==
    [][environment # "DEVELOPMENT" =>
         /\ NoPromotion
         /\ (NoTrustedRow(table) /\ NoneAuthorized) =>
              (NoTrustedRow(table') /\ NoneAuthorized')]_vars

\* in production, over a store with a record and none trusted, a PATCH
\* /publicKey is refused and a genuine /gate request is turned down
C18_Witness ==
    /\ environment = "PRODUCTION"
    /\ table # {}
    /\ NoTrustedRow(table)
    /\ NoneAuthorized
    /\ \E s \in Slots, g \in Slots :
         /\ slots[s].path = "/publicKey" /\ slots[s].method = "PATCH"
         /\ slots[s].response = GetNotProductionResponse
         /\ InGate(g)
         /\ Genuine(slots[g].body)
         /\ slots[g].pc = "done"
         /\ slots[g].response = GetUnauthorizedResponse

(***************************************************************************)
(* C19: a request to /gate with a method other than PATCH is answered 405  *)
(* and a request to a path other than /publicKey, /table and /gate is      *)
(* answered 404, both on arrival, with no trust lookup and nothing sent;   *)
(* a trust lookup or an envelope belongs to a PATCH on /gate.              *)
(***************************************************************************)
C19_OnlyPatchGateAuthorizes ==
    \A s \in Slots :
      LET slot == slots[s]
          untouched == /\ slot.pc = "done"
                       /\ slot.seen = ""
                       /\ slot.verified = ""
                       /\ slot.sent = <<>>
      IN  /\ (slot.path = "/gate" /\ slot.method # "PATCH") =>
               untouched /\ slot.response = GetMethodNotAllowedResponse
          /\ (slot.pc # "idle" /\ slot.path \notin {"/publicKey", "/table", "/gate"}) =>
               untouched /\ slot.response = NotFoundResponse
          /\ ( \/ slot.seen # ""
               \/ slot.sent # <<>>
               \/ slot.pc \in {"GateHandler", "GateHandler:verify", "SendToGate:fetch"} ) =>
               InGate(s)

\* a POST to /gate answered 405
C19_Witness ==
    \E s \in Slots :
      /\ slots[s].path = "/gate"
      /\ slots[s].method = "POST"
      /\ slots[s].pc = "done"
      /\ slots[s].response = GetMethodNotAllowedResponse

\* a request to another path answered 404
C19_WitnessNotFound ==
    \E s \in Slots :
      /\ slots[s].path = "/"
      /\ slots[s].pc = "done"
      /\ slots[s].response = NotFoundResponse

====
